---------------------------- MODULE Spec2Model ----------------------------
(***************************************************************************)
(* The news retrieval pipeline of src/News.py: the "Fetch news" button     *)
(* handler, the st.cache_data(ttl=60*5) wrapper and the body of            *)
(* cached_fetch_news (credential check, page loop, retry loop, backoff).   *)
(*                                                                         *)
(* One behaviour is a sequence of button clicks in one Streamlit process.  *)
(* The provider is the environment: every request is answered by any       *)
(* response of Responses(page).  Time is in seconds; only the age of the   *)
(* cache entries is kept, saturated at the time-to-live.  Entries age      *)
(* while a call sleeps and between clicks; the time a request itself       *)
(* takes is not counted.                                                   *)
(***************************************************************************)
EXTENDS Naturals, Integers, Sequences, FiniteSets, TLC

\* ------------------------------------------------------------- bounds
MaxPages == 2      \* largest max_pages a call is made with (slider: 1..5)
MaxLen   == 2      \* page_size of the calls: the longest list of a page
MaxCalls == 2      \* button clicks in one behaviour

\* ------------------------------------------------------------- constants
TTL == 300                        \* @st.cache_data(ttl=60*5)
NetworkRetryCeiling == 3          \* if retries > 3   (requests.RequestException)
HttpRetryCeiling == 4             \* if retries > 4   (429, 503, 500)

Queries   == {"ACME"}
PageSizes == {MaxLen}

\* The arguments of a call; the cache key of st.cache_data is built from them.
\* Calls are made with the smallest and the largest number of pages.
CallArgs ==
    [query : Queries, from_iso : {"from"}, to_iso : {"to"},
     max_pages : {1, MaxPages}, page_size : PageSizes]

\* ------------------------------------------------------------- provider
\* An element of the JSON array `articles`.  dict = FALSE is an element that
\* is no JSON object; source is the shape of the element's "source" member.
NonDict == [dict |-> FALSE, title |-> <<0, 0>>, source |-> "absent",
            name |-> "none", image |-> "none"]

RawArticle(p, i, s) ==
    [dict |-> TRUE, title |-> <<p, i>>, source |-> s,
     name |-> IF s = "object" THEN "wire" ELSE "none", image |-> "img"]

\* The i-th article of page p: every second one comes without "source".
Article(p, i) == RawArticle(p, i, IF i % 2 = 1 THEN "object" ELSE "absent")

GoodList(p, n) == [i \in 1..n |-> Article(p, i)]

\* Lists of article objects as the provider documents them, for page p.
GoodLists(p) == {GoodList(p, n) : n \in 0..MaxLen}

\* Lists with an element that is no article object, or has "source": null.
BadLists(p) ==
    {<<NonDict>>, Append(GoodList(p, MaxLen - 1), RawArticle(p, MaxLen, "null"))}

\* The value of the member `articles` of the body: type "absent" is a body
\* without the member, "string" a JSON string (items: its characters).
ArticlesFields(p) ==
    {[type |-> "absent", items |-> <<>>],
     [type |-> "null",   items |-> <<>>],
     [type |-> "string", items |-> <<NonDict>>]}
    \cup {[type |-> "list", items |-> l] : l \in GoodLists(p) \cup BadLists(p)}

NoField == [type |-> "absent", items |-> <<>>]

Bodies(p) ==
    {[json |-> "invalid", articles |-> NoField]}
    \cup {[json |-> "object", articles |-> f] : f \in ArticlesFields(p)}

NoBody == [json |-> "invalid", articles |-> NoField]

OtherStatuses == {429, 500, 503, 404}

\* What one requests.get(...) can come to: an exception or a response.
Responses(p) ==
    {[kind |-> "exception", status |-> 0, body |-> NoBody]}
    \cup {[kind |-> "http", status |-> s, body |-> NoBody] : s \in OtherStatuses}
    \cup {[kind |-> "http", status |-> 200, body |-> b] : b \in Bodies(p)}

NoResponse == [kind |-> "none", status |-> 0, body |-> NoBody]

\* ------------------------------------------------------------- pure code
\* resp.json() and data.get("articles", []) raise on a body that is no JSON
\* or no JSON object.
JsonRaises(body) == body.json # "object"

\* `not articles`: the default [], null, an empty list, an empty string.
IsFalsy(f) == f.type \in {"absent", "null"} \/ f.items = <<>>

\* a.get(...) raises on a non-dict; a.get("source", {}).get("name") on null.
ItemRaises(a) == ~a.dict \/ a.source = "null"

NormalizeRaises(items) == \E i \in 1..Len(items) : ItemRaises(items[i])

\* The elements the `for a in articles` loop gets through before one raises.
RECURSIVE BeforeRaise(_)
BeforeRaise(items) ==
    IF items = <<>> \/ ItemRaises(Head(items)) THEN <<>>
    ELSE <<Head(items)>> \o BeforeRaise(Tail(items))

\* The dict built at lines 119-126: the listed members, source flattened.
NormalizeArticle(a) ==
    [title |-> a.title,
     source |-> IF a.source = "object" THEN a.name ELSE "None"]

Normalize(items) == [i \in 1..Len(items) |-> NormalizeArticle(items[i])]

\* Mutant: the page is put in front of what was accumulated.
Accumulate_prepend(acc, items) == Normalize(items) \o acc

\* The `for a in articles` loop: all_articles.append(article), in order.
Accumulate(acc, items) == acc \o Normalize(items)

\* Mutant: a page one article short of page_size is not taken as short.
IsShortPage_lenient(items, page_size) == Len(items) < page_size - 1

\* if len(articles) < page_size
IsShortPage(items, page_size) == Len(items) < page_size

\* Mutant: a client error is retried like a rate limit.
IsTransientStatus_with404(s) == s \in {429, 503, 500, 404}

\* if resp.status_code in (429, 503, 500)
IsTransientStatus(s) == s \in {429, 503, 500}

\* Mutant: linear instead of exponential backoff.
SleepFor_linear(r) == 2 * r

\* sleep_for = 2 ** retries
SleepFor(r) == 2 ^ r

\* Mutant: a network failure is allowed as many retries as an HTTP failure.
CeilingFor_same(kind) == HttpRetryCeiling

\* Mutant: both ceilings are one higher.
CeilingFor_raised(kind) ==
    IF kind = "exception" THEN NetworkRetryCeiling + 1 ELSE HttpRetryCeiling + 1

\* The ceiling `retries` is compared with: line 105 after an exception of
\* requests.get, line 137 after a status 429, 503 or 500.
CeilingFor(kind) ==
    IF kind = "exception" THEN NetworkRetryCeiling ELSE HttpRetryCeiling

\* Mutant: the loop runs one page too far (range(1, max_pages + 2)).
HasNextPage_offByOne(p, max_pages) == p + 1 <= max_pages + 1

\* `for page in range(1, max_pages + 1)`: another pass follows page p.
HasNextPage(p, max_pages) == p + 1 <= max_pages

VARIABLES
    env_key,       \* GOOGLE_NEWS_API_KEY is set in the process environment
    cache,         \* st.cache_data: set of [key, value, age]
    calls,         \* button clicks so far
    pc,            \* "idle" | "request" | "sleep" | "done"
    args,          \* the arguments of the running call
    page,          \* loop variable of `for page in range(1, max_pages + 1)`
    retries,
    all_articles,
    sleep_for,
    outcome,       \* "none" | "list" | "RuntimeError" | "crash"
    result,        \* the list handed to the caller
    hit,           \* the call was answered from the cache
    nreq,          \* requests.get calls of this call
    reqPages,      \* page numbers this call has requested
    pageReqs,      \* requests.get calls for the current page
    waits,         \* seconds slept before each retry of the current page
    pagesGot,      \* item lists of the HTTP 200 pages the loop took, in order
                   \* (<<>> for a page with no articles)
    failKinds,     \* kinds of the failed attempts at the current page
    lastResp,      \* the answer to the last requests.get of this call
    prevRaised     \* the arguments of the previous click if it ended with
                   \* the RuntimeError of line 83, else NoArgs

vars == <<env_key, cache, calls, pc, args, page, retries, all_articles,
          sleep_for, outcome, result, hit, nreq, reqPages, pageReqs, waits,
          pagesGot,
          failKinds, lastResp, prevRaised>>

NoArgs == [query |-> "none", from_iso |-> "from", to_iso |-> "to",
           max_pages |-> 0, page_size |-> 0]

\* Mutant: the counter of the page before is carried into the next page.
RetriesAtPageStart_carried == retries

\* retries = 0, at the top of every pass of the `for page` loop (line 99).
RetriesAtPageStart == 0

\* The kind of a failed attempt, as the history variable failKinds keeps it.
FailKind(resp) ==
    IF resp.kind = "exception" THEN "network"
    ELSE IF resp.status = 503 THEN "http503" ELSE "http429_500"

\* ------------------------------------------------------------- cache
Min(a, b) == IF a < b THEN a ELSE b

Aged(c, d) == {[e EXCEPT !.age = Min(e.age + d, TTL)] : e \in c}

\* Mutant: an entry is still served at the moment its time-to-live is over.
IsFresh_inclusive(e) == e.age <= TTL

IsFresh(e) == e.age < TTL

SameKey(k1, k2) == k1 = k2

\* Mutant: the lookup does not look at the age of the entry.
Entries_stale(c, k) == {e \in c : SameKey(e.key, k)}

Entries(c, k) == {e \in c : SameKey(e.key, k) /\ IsFresh(e)}

\* Mutant: an empty list is not stored.
Stored_nonEmpty(c, k, v) ==
    IF v = <<>> THEN c
    ELSE {e \in c : ~SameKey(e.key, k)} \cup {[key |-> k, value |-> v, age |-> 0]}

Stored(c, k, v) ==
    {e \in c : ~SameKey(e.key, k)} \cup {[key |-> k, value |-> v, age |-> 0]}

\* Mutant: a call that raised is remembered as one that returned no article.
AfterRaise_storesEmpty(c, k) == Stored(c, k, <<>>)

\* The function raised: st.cache_data stores nothing for the call.
AfterRaise(c, k) == c

\* ------------------------------------------------------------- actions
Locals == <<page, retries, all_articles, sleep_for>>
History == <<nreq, reqPages, pageReqs, waits, pagesGot, failKinds, lastResp>>
\* What a click leaves untouched besides the cache and the environment.
Kept == <<History, prevRaised>>

Init ==
    /\ env_key \in BOOLEAN
    /\ cache = {}
    /\ calls = 0
    /\ pc = "idle"
    /\ args = NoArgs
    /\ page = 0 /\ retries = 0 /\ all_articles = <<>> /\ sleep_for = 0
    /\ outcome = "none" /\ result = <<>> /\ hit = FALSE
    /\ nreq = 0 /\ reqPages = {} /\ pageReqs = 0
    /\ waits = <<>> /\ pagesGot = <<>>
    /\ failKinds = {} /\ lastResp = NoResponse
    /\ prevRaised = NoArgs

\* The environment variable is set or unset between two clicks.  (Line 81
\* reads it once, before the page loop: a change during a call has no effect.)
SetEnv(b) ==
    /\ pc = "idle" /\ calls < MaxCalls
    /\ env_key # b
    /\ env_key' = b
    /\ UNCHANGED <<cache, calls, pc, args, Locals, outcome, result, hit, Kept>>

\* Wall-clock time passes between two clicks.
Tick(d) ==
    /\ pc = "idle" /\ calls < MaxCalls
    /\ cache # {}
    /\ cache' = Aged(cache, d)
    /\ UNCHANGED <<env_key, calls, pc, args, Locals, outcome, result, hit, Kept>>

\* Button click, entry found: the stored value is returned, the body not run.
CallHit(a) ==
    /\ pc = "idle" /\ calls < MaxCalls
    /\ Entries(cache, a) # {}
    /\ \E e \in Entries(cache, a) :
          /\ result' = e.value
    /\ calls' = calls + 1
    /\ args' = a
    /\ outcome' = "list" /\ hit' = TRUE
    /\ pc' = "done"
    /\ UNCHANGED <<env_key, cache, Locals, Kept>>

\* Button click, no entry, no credential: lines 81-83, then 233-235.
CallNoKey(a) ==
    /\ pc = "idle" /\ calls < MaxCalls
    /\ Entries(cache, a) = {}
    /\ ~env_key
    /\ calls' = calls + 1
    /\ args' = a
    /\ outcome' = "RuntimeError" /\ result' = <<>> /\ hit' = FALSE
    /\ cache' = AfterRaise(cache, a)
    /\ pc' = "done"
    /\ UNCHANGED <<env_key, Locals, Kept>>

\* Button click, no entry, credential present: the page loop starts.
CallFetch(a) ==
    /\ pc = "idle" /\ calls < MaxCalls
    /\ Entries(cache, a) = {}
    /\ env_key
    /\ calls' = calls + 1
    /\ args' = a
    /\ page' = 1 /\ retries' = RetriesAtPageStart /\ all_articles' = <<>>
    /\ pc' = "request"
    /\ UNCHANGED <<env_key, cache, sleep_for, outcome, result, hit, Kept>>

\* `return all_articles`: st.cache_data stores the value, the caller gets it.
Return(list) ==
    /\ outcome' = "list" /\ result' = list
    /\ cache' = Stored(cache, args, list)
    /\ pc' = "done"

\* An exception other than RuntimeError leaves the function and the handler.
Raise ==
    /\ outcome' = "crash" /\ result' = <<>>
    /\ pc' = "done"
    /\ cache' = AfterRaise(cache, args)

\* retries += 1; give up above the ceiling, else sleep 2 ** retries.
Retry(ceiling) ==
    /\ retries' = retries + 1
    /\ IF retries + 1 > ceiling
          THEN /\ Return(all_articles)
               /\ UNCHANGED <<page, all_articles, sleep_for>>
          ELSE /\ sleep_for' = SleepFor(retries + 1)
               /\ pc' = "sleep"
               /\ UNCHANGED <<page, all_articles, outcome, result, cache>>

\* Lines 112-132: the HTTP 200 branch.
OnPage(body) ==
    IF JsonRaises(body) THEN
        Raise /\ UNCHANGED <<Locals, pagesGot>>
    ELSE IF IsFalsy(body.articles) THEN
        /\ Return(all_articles)
        /\ pagesGot' = Append(pagesGot, <<>>)
        /\ UNCHANGED Locals
    ELSE IF NormalizeRaises(body.articles.items) THEN
        /\ Raise
        /\ all_articles' = Accumulate(all_articles, BeforeRaise(body.articles.items))
        /\ UNCHANGED <<page, retries, sleep_for, pagesGot>>
    ELSE
        LET items == body.articles.items
            acc == Accumulate(all_articles, items)
        IN  /\ all_articles' = acc
            /\ pagesGot' = Append(pagesGot, items)
            /\ IF IsShortPage(items, args.page_size) \/ ~HasNextPage(page, args.max_pages)
                  THEN Return(acc) /\ UNCHANGED <<page, retries, sleep_for>>
                  ELSE /\ page' = page + 1
                       /\ retries' = RetriesAtPageStart
                       /\ pc' = "request"
                       /\ UNCHANGED <<sleep_for, outcome, result, cache>>

\* One pass of the `while True` loop: requests.get and what follows it.
Attempt(resp) ==
    /\ pc = "request"
    /\ nreq' = nreq + 1
    /\ reqPages' = reqPages \cup {page}
    /\ IF resp.kind = "exception" THEN
            /\ Retry(CeilingFor(resp.kind))
            /\ failKinds' = failKinds \cup {FailKind(resp)}
            /\ pageReqs' = pageReqs + 1
            /\ UNCHANGED <<pagesGot, waits>>
       ELSE IF resp.status = 200 THEN
            /\ OnPage(resp.body)
            /\ failKinds' = IF pc' = "request" THEN {} ELSE failKinds
            /\ pageReqs' = IF pc' = "request" THEN 0 ELSE pageReqs + 1
            /\ waits' = IF pc' = "request" THEN <<>> ELSE waits
       ELSE IF IsTransientStatus(resp.status) THEN
            /\ Retry(CeilingFor(resp.kind))
            /\ failKinds' = failKinds \cup {FailKind(resp)}
            /\ pageReqs' = pageReqs + 1
            /\ UNCHANGED <<pagesGot, waits>>
       ELSE /\ Return(all_articles)
            /\ pageReqs' = pageReqs + 1
            /\ UNCHANGED <<Locals, pagesGot, failKinds, waits>>
    /\ lastResp' = resp
    /\ UNCHANGED <<env_key, calls, args, hit, prevRaised>>

\* time.sleep(sleep_for); continue
Backoff ==
    /\ pc = "sleep"
    /\ waits' = Append(waits, sleep_for)
    /\ cache' = Aged(cache, sleep_for)
    /\ pc' = "request"
    /\ UNCHANGED <<env_key, calls, args, Locals, outcome, result, hit,
                   nreq, reqPages, pageReqs, pagesGot, failKinds, lastResp,
                   prevRaised>>

\* The script run ends; the next click starts from fresh locals.
HandlerEnd ==
    /\ pc = "done"
    /\ pc' = "idle"
    /\ args' = NoArgs
    /\ page' = 0 /\ retries' = 0 /\ all_articles' = <<>> /\ sleep_for' = 0
    /\ outcome' = "none" /\ result' = <<>> /\ hit' = FALSE
    /\ nreq' = 0 /\ reqPages' = {} /\ pageReqs' = 0
    /\ waits' = <<>> /\ pagesGot' = <<>>
    /\ failKinds' = {} /\ lastResp' = NoResponse
    /\ prevRaised' = IF outcome = "RuntimeError" THEN args ELSE NoArgs
    /\ UNCHANGED <<env_key, cache, calls>>

IdleSteps == {TTL - 1, TTL}

Next ==
    \/ \E b \in BOOLEAN : SetEnv(b)
    \/ \E d \in IdleSteps : Tick(d)
    \/ \E a \in CallArgs : CallHit(a)
    \/ \E a \in CallArgs : CallNoKey(a)
    \/ \E a \in CallArgs : CallFetch(a)
    \/ \E r \in Responses(page) : Attempt(r)
    \/ Backoff
    \/ HandlerEnd

Spec == Init /\ [][Next]_vars

\* The call is synchronous: requests.get returns or raises within its timeout
\* and time.sleep returns, so a started call keeps taking its steps.
FairSpec ==
    /\ Spec
    /\ WF_vars(\E r \in Responses(page) : Attempt(r))
    /\ WF_vars(Backoff)

\* ------------------------------------------------------------- claims
Done == pc = "done"

\* The item lists of a sequence of pages, one after the other.
RECURSIVE Flatten(_)
Flatten(ss) == IF ss = <<>> THEN <<>> ELSE Head(ss) \o Flatten(Tail(ss))

LastPage == pagesGot[Len(pagesGot)]

\* Every request of this call was answered with an HTTP 200 page the loop took.
AllPagesOk == nreq = Len(pagesGot)

\* The provider answered N full pages and then one short or empty page.
FullThenShort ==
    /\ pagesGot # <<>>
    /\ AllPagesOk
    /\ \A i \in 1..(Len(pagesGot) - 1) : Len(pagesGot[i]) = args.page_size
    /\ Len(LastPage) < args.page_size

\* C1 as stated: after N full pages and a short or empty page, all answered
\* with HTTP 200, the call has returned exactly the articles of the N full
\* pages, in page order, and has requested the pages 1..N+1 and no other.
C1_OnlyFullPages ==
    FullThenShort =>
        /\ Done /\ outcome = "list"
        /\ result = Normalize(Flatten(SubSeq(pagesGot, 1, Len(pagesGot) - 1)))
        /\ reqPages = 1..Len(pagesGot)

\* C1 amended: after N full pages and a short or empty page, all answered with
\* HTTP 200, the call has returned the articles of the N full pages followed
\* by the articles of the short page, in page order and in the provider's
\* order within each page, and has requested the pages 1..N+1 once each.
C1_FullPagesThenShort ==
    FullThenShort =>
        /\ Done /\ outcome = "list"
        /\ result = Normalize(Flatten(pagesGot))
        /\ reqPages = 1..Len(pagesGot)

C1_Witness ==
    /\ FullThenShort /\ Done
    /\ Len(pagesGot) >= 2 /\ LastPage # <<>>
    /\ Len(pagesGot) <= args.max_pages

\* C2 as stated: a call made while no credential is configured ends with the
\* missing-credential error, with no request and no retry.
C2_AlwaysRaises ==
    (Done /\ ~env_key) =>
        /\ outcome = "RuntimeError"
        /\ nreq = 0 /\ retries = 0 /\ waits = <<>>

\* C2 amended: a call made while no credential is configured performs no
\* request and no retry; it ends with the missing-credential error unless the
\* cache holds an entry for its arguments that is younger than five minutes,
\* and then it returns the stored list.
C2_RaisesUnlessCached ==
    (Done /\ ~env_key) =>
        /\ nreq = 0 /\ retries = 0 /\ waits = <<>>
        /\ IF \E e \in cache : e.key = args /\ e.age < 5 * 60
              THEN /\ outcome = "list"
                   /\ \A e \in cache : e.key = args => result = e.value
              ELSE outcome = "RuntimeError"

C2_Witness ==
    /\ Done /\ ~env_key /\ outcome = "RuntimeError"
    /\ calls >= 2
    /\ \E e \in cache : e.key = args

\* A click is handled in this step.
ClickStep == pc = "idle" /\ pc' # "idle"

\* C3: a call whose arguments have an entry younger than five minutes returns
\* the stored list and makes no request; the stored list is the output of the
\* call that stored it and is not changed while the entry is kept; a call
\* whose arguments have no such entry runs the function body again.
C3_CachedWithinTtl ==
    [][/\ ClickStep =>
            LET fresh == {e \in cache : e.key = args' /\ e.age < 5 * 60}
            IN  IF fresh # {}
                  THEN /\ pc' = "done" /\ hit' /\ outcome' = "list"
                       /\ \A e \in fresh : result' = e.value
                       /\ nreq' = 0 /\ cache' = cache
                  ELSE /\ ~hit'
                       /\ env_key => pc' = "request" /\ page' = 1 /\ nreq' = 0
       /\ (pc = "request" /\ pc' = "done" /\ outcome' = "list") =>
            /\ [key |-> args, value |-> result', age |-> 0] \in cache'
            /\ \A e \in cache' : e.key = args => e.value = result'
            /\ \A e \in cache' : e.key # args => e \in cache
       /\ ~(pc = "request" /\ pc' = "done" /\ outcome' = "list") =>
            \A e \in cache' :
                \E f \in cache : /\ f.key = e.key /\ f.value = e.value
                                 /\ f.age <= e.age
      ]_vars

C3_Witness ==
    /\ Done /\ hit /\ nreq = 0
    /\ \E e \in cache : e.key = args /\ e.age = 5 * 60 - 1 /\ result = e.value

\* The waits 2, 4, ..., 2^n.
PowersOfTwo(n) == [i \in 1..n |-> 2 ^ i]

\* Every attempt made so far at the current page was answered with HTTP 503:
\* no other failure is recorded for the page, and the last answer is a 503
\* (any other answer ends the page or the call).
Only503 == failKinds = {"http503"} /\ lastResp.status = 503

\* C4: while every attempt at a page is answered with HTTP 503 the waits
\* before the retries are 2, 4, 8, 16; the fifth 503 ends the call, which
\* returns the articles of the earlier pages and raises nothing.
C4_Backoff503 ==
    Only503 =>
        /\ pageReqs \in 1..5
        /\ pageReqs <= 4 =>
              \/ pc = "sleep" /\ sleep_for = 2 ^ pageReqs
                              /\ waits = PowersOfTwo(pageReqs - 1)
              \/ pc = "request" /\ waits = PowersOfTwo(pageReqs)
        /\ pageReqs = 5 =>
              /\ Done /\ outcome = "list"
              /\ waits = PowersOfTwo(4)
              /\ result = Normalize(Flatten(pagesGot))
              /\ Len(pagesGot) = page - 1

C4_Witness ==
    /\ Only503 /\ Done /\ pageReqs = 5
    /\ page = 2 /\ result # <<>>
    /\ waits = <<2, 4, 8, 16>>

\* C5: a call requests only page numbers 1..max_pages, so at most max_pages
\* distinct pages, however many requests the retries add.
C5_AtMostMaxPages ==
    /\ reqPages \subseteq 1..args.max_pages
    /\ Cardinality(reqPages) <= args.max_pages

C5_Witness ==
    /\ Done /\ args.max_pages = MaxPages
    /\ reqPages = 1..MaxPages
    /\ nreq > MaxPages
    /\ Len(pagesGot) = MaxPages /\ Len(LastPage) = args.page_size

\* The last HTTP 200 page the loop took holds fewer than page_size articles.
LastShort == pagesGot # <<>> /\ Len(LastPage) < args.page_size

FirstPageEmpty == Len(pagesGot) = 1 /\ LastPage = <<>>

\* C6 as stated: once a page answered with HTTP 200 holds fewer than page_size
\* articles the call has returned everything seen so far and requested no
\* page beyond it; if that page is an empty first page, the result is empty
\* and exactly one request was issued.
C6_ShortPageOneRequest ==
    LastShort =>
        /\ Done /\ outcome = "list"
        /\ result = Normalize(Flatten(pagesGot))
        /\ reqPages = 1..Len(pagesGot)
        /\ FirstPageEmpty => result = <<>> /\ nreq = 1

\* C6 amended: once a page answered with HTTP 200 holds fewer than page_size
\* articles the call has returned everything seen so far and requested no
\* page beyond it, whatever max_pages is; if that page is an empty first
\* page, the result is empty and the request it answered is the last one:
\* one request if no attempt at page 1 failed before, else one more for each
\* failed attempt (at most four).
C6_ShortPageStops ==
    LastShort =>
        /\ Done /\ outcome = "list"
        /\ result = Normalize(Flatten(pagesGot))
        /\ reqPages = 1..Len(pagesGot)
        /\ FirstPageEmpty =>
              /\ result = <<>>
              /\ nreq = pageReqs /\ nreq \in 1..5
              /\ failKinds = {} <=> nreq = 1

C6_Witness ==
    /\ LastShort /\ Done /\ FirstPageEmpty
    /\ nreq > 1
    /\ args.max_pages > 1

\* The last answer is an HTTP status that is neither 200 nor 429, 500, 503.
OtherStatus ==
    lastResp.kind = "http" /\ lastResp.status \notin {200, 429, 500, 503}

\* C7: after an answer with another status the call has returned what it had
\* accumulated: that answer is not retried and no later page is requested,
\* whatever the retry counter was.
C7_OtherStatusStops ==
    OtherStatus =>
        /\ Done /\ outcome = "list"
        /\ result = all_articles
        /\ result = Normalize(Flatten(pagesGot))
        /\ reqPages = 1..page /\ Len(pagesGot) = page - 1
        /\ retries = pageReqs - 1

C7_Witness ==
    /\ OtherStatus /\ Done
    /\ retries >= 1 /\ page >= 2 /\ result # <<>>

\* C8 as stated: with a credential present every call ends by returning a
\* list, whatever the provider answered.
C8_AlwaysAList == (Done /\ env_key) => outcome = "list"

\* The last answer is an HTTP 200 JSON object whose `articles` is absent,
\* empty or no list of article objects.
BadArticlesField ==
    /\ lastResp.kind = "http" /\ lastResp.status = 200
    /\ lastResp.body.json = "object"
    /\ LET f == lastResp.body.articles
       IN  \/ f.type # "list"
           \/ f.items = <<>>
           \/ \E i \in 1..Len(f.items) : ~f.items[i].dict

\* C9 as stated: an HTTP 200 answer whose `articles` is absent, empty or
\* malformed ends the call normally with the articles accumulated so far.
C9_MalformedIsEmptyPage ==
    BadArticlesField =>
        /\ Done /\ outcome = "list"
        /\ result = all_articles

\* C10 as stated (the way a call ends): the retry loop is bounded and a call
\* that has ended has ended with a list (data or a partial result) or with
\* the missing-credential error.
C10_EndsInOneOfThree ==
    /\ retries <= 5 /\ pageReqs <= 5
    /\ Done => outcome \in {"list", "RuntimeError"}

\* C10, termination alone: under FairSpec every call that has started its
\* page loop ends.
C10_Terminates == (pc \in {"request", "sleep"}) ~> Done

\* The call gave up on the current page: its last request failed transiently
\* and the call returned.
GaveUp ==
    /\ Done /\ outcome = "list" /\ ~hit
    /\ \/ lastResp.kind = "exception"
       \/ lastResp.kind = "http" /\ lastResp.status \in {429, 500, 503}

\* Every attempt at the current page failed, all at the network level or all
\* with HTTP 429, 500 or 503.
NetworkOnly == failKinds = {"network"}
HttpOnly == failKinds # {} /\ failKinds \subseteq {"http503", "http429_500"}

\* C11 as stated: a page that fails on every attempt is given up after the
\* same number of requests and the same waits whichever the kind of failure:
\* at the network level as with HTTP 429/500/503, that is at the fifth
\* request, after the waits 2, 4, 8, 16.
C11_SameAllowance ==
    (GaveUp /\ (NetworkOnly \/ HttpOnly)) =>
        pageReqs = 5 /\ waits = PowersOfTwo(4)

\* C11 amended: both kinds of failure are retried on the same page after a
\* wait of 2^(failures so far) and end in the partial result, but the
\* allowance differs: a page that fails at the network level on every attempt
\* is given up at the fourth request, after the waits 2, 4, 8; a page that
\* fails with HTTP 429/500/503 on every attempt at the fifth, after the waits
\* 2, 4, 8, 16.
C11_AllowanceByKind ==
    /\ (pc = "sleep" /\ (NetworkOnly \/ HttpOnly)) =>
          /\ sleep_for = 2 ^ pageReqs
          /\ waits = PowersOfTwo(pageReqs - 1)
    /\ (GaveUp /\ NetworkOnly) =>
          /\ pageReqs = 4 /\ waits = <<2, 4, 8>>
          /\ result = Normalize(Flatten(pagesGot))
    /\ (GaveUp /\ HttpOnly) =>
          /\ pageReqs = 5 /\ waits = <<2, 4, 8, 16>>
          /\ result = Normalize(Flatten(pagesGot))

C11_Witness ==
    /\ GaveUp /\ NetworkOnly
    /\ pageReqs = 4 /\ waits = <<2, 4, 8>>
    /\ page = 2 /\ result # <<>>

\* C12: a transient failure is followed by a wait of 2^attempt and then by a
\* request for the same page, attempt being the number of consecutive
\* failures of that page; it starts again from 1 on every page, so a later
\* page waits 2, 4, ... and is given up no earlier than at its fourth request,
\* whatever failed on the pages before it.
C12_BackoffPerPage ==
    /\ [](/\ (pc \in {"request", "sleep"}) => retries = pageReqs
          /\ pc = "sleep" => sleep_for = 2 ^ retries /\ Len(waits) = retries - 1
          /\ GaveUp => pageReqs >= 4 /\ retries = pageReqs)
    /\ [][/\ (pc = "request" /\ pc' = "sleep") =>
                /\ page' = page /\ retries' = retries + 1
                /\ sleep_for' = 2 ^ (retries + 1)
                /\ all_articles' = all_articles
          /\ pc = "sleep" =>
                /\ pc' = "request" /\ page' = page /\ retries' = retries
                /\ waits' = Append(waits, sleep_for)
                /\ nreq' = nreq
          /\ (pc = "request" /\ pc' = "request") =>
                /\ page' = page + 1 /\ retries' = 0 /\ waits' = <<>>
         ]_vars

C12_Witness ==
    /\ pc = "sleep" /\ page = 2
    /\ retries = 1 /\ sleep_for = 2 /\ waits = <<>>
    /\ nreq = 5

\* The call ran the function body and returned a list.
Returned == Done /\ outcome = "list" /\ ~hit

\* C13: every list returned by a call that ran the function body is stored
\* under the arguments of the call, also the partial or empty list returned
\* after the retries ran out or after a terminal status; a later call with
\* the same arguments finds the entry while it is younger than five minutes,
\* returns the stored list and makes no request, whatever the provider would
\* answer now.
C13_EveryListStored ==
    /\ [](Returned =>
            /\ [key |-> args, value |-> result, age |-> 0] \in cache
            /\ \A e \in cache : e.key = args => e.value = result /\ e.age = 0
            /\ (GaveUp \/ OtherStatus) => result = all_articles)
    /\ [][(ClickStep /\ \E e \in cache : e.key = args' /\ e.age < 5 * 60) =>
              /\ hit' /\ pc' = "done" /\ outcome' = "list"
              /\ \E e \in cache : e.key = args' /\ result' = e.value
              /\ nreq' = 0 /\ lastResp' = NoResponse
              /\ cache' = cache
         ]_vars

C13_Witness ==
    /\ Returned /\ GaveUp
    /\ page = 2 /\ Len(result) = args.page_size
    /\ [key |-> args, value |-> result, age |-> 0] \in cache
    /\ calls = 2

\* A call is running the page loop, or has left it.
InFetch == pc \in {"request", "sleep"} \/ (Done /\ ~hit /\ outcome # "RuntimeError")

\* The last answer is an HTTP 200 JSON object whose `articles` is a non-empty
\* list.
NonEmptyListAnswer ==
    /\ lastResp.kind = "http" /\ lastResp.status = 200
    /\ lastResp.body.json = "object"
    /\ lastResp.body.articles.type = "list"
    /\ lastResp.body.articles.items # <<>>

NonEmpty(l) == l # <<>>

\* The lists of the pages answered so far with HTTP 200 and a non-empty list,
\* in the order of the answers: those the loop took and, if the handling of
\* the last answer raised, the list of that answer.
AnsweredPages ==
    LET took == SelectSeq(pagesGot, NonEmpty)
    IN  IF outcome = "crash" /\ NonEmptyListAnswer
           THEN Append(took, lastResp.body.articles.items)
           ELSE took

\* C14 as stated: in every state of a fetch the accumulated list is the
\* articles of the pages 1..k, in page order, each once, where 1..k are the
\* pages answered with HTTP 200 and a non-empty list; only the pages 1..k+1
\* have been requested, and page k+1 only after the pages before it were
\* answered with a full page.
C14_AccumulatedIsPages ==
    InFetch =>
        LET k == Len(AnsweredPages)
        IN  /\ all_articles = Normalize(Flatten(AnsweredPages))
            /\ reqPages \subseteq 1..(k + 1)
            /\ \A q \in reqPages : \A i \in 1..(q - 1) :
                   i <= k /\ Len(AnsweredPages[i]) = args.page_size
            /\ k <= args.max_pages

\* The same, for calls that have not ended by an exception.
C14_UnlessRaised == outcome # "crash" => C14_AccumulatedIsPages

\* C15: one counter counts the failures of both kinds at a page; a network
\* failure ends the call once the counter is above 3, an HTTP 429/500/503
\* once it is above 4.  So, however the two kinds are mixed, a page is
\* requested at most 5 times and a call makes at most 5 * max_pages requests.
C15_RequestBound ==
    /\ pageReqs <= 5 /\ retries <= 5
    /\ (pc \in {"request", "sleep"}) => retries = pageReqs /\ retries <= 4
    /\ (pc = "sleep" /\ lastResp.kind = "exception") => retries <= 3
    /\ GaveUp => retries = pageReqs
    /\ (GaveUp /\ lastResp.kind = "exception") => retries \in {4, 5}
    /\ (GaveUp /\ lastResp.kind = "http") => retries = 5
    /\ InFetch => nreq <= 5 * args.max_pages

C15_Witness ==
    /\ GaveUp /\ args.max_pages = MaxPages
    /\ "network" \in failKinds /\ failKinds # {"network"}
    /\ pageReqs = 5
    /\ nreq = 5 * args.max_pages

\* C16: a call that ends with the missing-credential error makes no request
\* and leaves the cache as it was, with no entry younger than five minutes
\* for its arguments; the next click with the same arguments is not answered
\* from the cache: the function body runs again, raising the error again if
\* the credential is still missing and starting the page loop at page 1 if it
\* is configured by then.
C16_ErrorNotCached ==
    /\ []((Done /\ outcome = "RuntimeError") =>
             /\ nreq = 0 /\ ~hit
             /\ ~\E e \in cache : e.key = args /\ e.age < 5 * 60)
    /\ [][/\ outcome' = "RuntimeError" => cache' = cache
          /\ (ClickStep /\ prevRaised # NoArgs /\ args' = prevRaised) =>
                /\ ~hit' /\ cache' = cache
                /\ IF env_key
                      THEN pc' = "request" /\ page' = 1 /\ outcome' = "none"
                      ELSE pc' = "done" /\ outcome' = "RuntimeError"
         ]_vars

C16_Witness ==
    /\ Done /\ prevRaised = args
    /\ ~hit /\ outcome = "list" /\ result # <<>>
    /\ nreq >= 1
    /\ [key |-> args, value |-> result, age |-> 0] \in cache

=============================================================================
